---- MODULE Spec2Model ----
(***************************************************************************)
(* Model of etl.py: the batch job that turns song records and event (log)  *)
(* records into the songs, artists, users, time and songplays tables.      *)
(*                                                                         *)
(* A DataFrame is a sequence of records.  Spark fixes no row order; the    *)
(* order of a sequence only names the rows, and every property below       *)
(* counts rows or quantifies over them.                                    *)
(***************************************************************************)
EXTENDS Integers, Sequences, FiniteSets, TLC

\* ------------------------------------------------------------------ bounds
MaxSongs == 2
MaxEvents == 2
MaxRuns == 2
MaxPartitions == 2

\* ------------------------------------------------------------ input values
\* The value Spark gives a JSON field that is absent or null.
NULL == "<null>"

UserIds == {"7", "8"}
Levels == {"free", "paid"}
Pages == {"NextSong", "Home"}
\* Epoch-millisecond timestamps: 1970-01-01 00:00:01 and 1970-01-12 13:46:40.
Timestamps == {1000, 1000000000}

Song(id, title, aname) ==
    [song_id |-> id, title |-> title,
     artist_id |-> IF aname = "Band" THEN "A1" ELSE "A2",
     artist_name |-> aname, artist_location |-> "Town",
     artist_latitude |-> 10, artist_longitude |-> 20,
     year |-> 2000, duration |-> 200]

Event(u, t, lvl, pg, sg, ar) ==
    [userId |-> u, firstName |-> "F" \o u, lastName |-> "L" \o u,
     gender |-> IF u = "7" THEN "F" ELSE "M", level |-> lvl, ts |-> t,
     page |-> pg, song |-> sg, artist |-> ar, sessionId |-> 1,
     userAgent |-> "UA"]

SeqsUpTo(S, n) == UNION {[1..k -> S] : k \in 0..n}

\* Event streams that vary the user, the timestamp, the level and the page.
ProfileEvents ==
    {Event(u, t, l, p, "X", "Band") :
        u \in UserIds, t \in Timestamps, l \in Levels, p \in Pages}
ProfileSongs == {Song("S1", "X", "Band")}

\* Streams that vary what the join of create_song_plays_table looks at.
JoinEvents ==
    {Event("7", 1000, "free", p, sa[1], sa[2]) :
        p \in Pages, sa \in {<<"X", "Band">>, <<"X", "Other">>, <<NULL, NULL>>}}
JoinSongs ==
    {Song(id, t, "Band") : id \in {"S1", "S2"}, t \in {"X", "Y"}}

\* ------------------------------------------------------- DataFrame helpers
Range(s) == {s[i] : i \in 1..Len(s)}

\* Number of rows of table s that satisfy P.
Count(s, P(_)) == Cardinality({i \in 1..Len(s) : P(s[i])})

\* Spark SQL equality in a join or filter condition: a comparison with null
\* is null, and a null condition keeps no row.
SqlEq(a, b) == a # NULL /\ b # NULL /\ a = b

\* The cross product of row numbers 1..n and 1..m, first component major.
Pairs(n, m) ==
    [k \in 1..(n * m) |-> [e |-> ((k - 1) \div m) + 1, s |-> ((k - 1) % m) + 1]]

\* The distinct values of a sequence, in order of first occurrence.
Distinct(s) ==
    LET first(i) == \A j \in 1..(i - 1) : s[j] # s[i]
        idx == SelectSeq([i \in 1..Len(s) |-> i], first)
    IN  [k \in 1..Len(idx) |-> s[idx[k]]]

\* min("ts") in the place of max("ts").
Max_min(S) == CHOOSE x \in S : \A y \in S : x <= y

Max(S) == CHOOSE x \in S : \A y \in S : y <= x

\* ------------------------------------------------------------ songs, artists
\* The same projection followed by dropDuplicates(["title"]).
songs_table_dedup(df) ==
    LET first(i) == \A j \in 1..(i - 1) : df[j].title # df[i].title
        idx == SelectSeq([i \in 1..Len(df) |-> i], first)
    IN  [k \in 1..Len(idx) |->
            [song_id |-> df[idx[k]].song_id, title |-> df[idx[k]].title,
             artist_id |-> df[idx[k]].artist_id, year |-> df[idx[k]].year,
             duration |-> df[idx[k]].duration]]

\* df.select("song_id", "title", "artist_id", "year", "duration")
songs_table(df) ==
    [i \in 1..Len(df) |->
        [song_id |-> df[i].song_id, title |-> df[i].title,
         artist_id |-> df[i].artist_id, year |-> df[i].year,
         duration |-> df[i].duration]]

\* df.selectExpr("artist_id", "artist_name as name", ...)
artists_table(df) ==
    [i \in 1..Len(df) |->
        [artist_id |-> df[i].artist_id, name |-> df[i].artist_name,
         location |-> df[i].artist_location,
         lattitude |-> df[i].artist_latitude,
         longitude |-> df[i].artist_longitude]]

\* --------------------------------------------------------------------- users
users_table_df(df) ==
    [i \in 1..Len(df) |->
        [user_id |-> df[i].userId, first_name |-> df[i].firstName,
         last_name |-> df[i].lastName, gender |-> df[i].gender,
         level |-> df[i].level, ts |-> df[i].ts]]

\* groupBy("user_id").max("ts"), columns renamed to userId and max_ts.
users_max_ts_df(utd) ==
    LET ids == Distinct([i \in 1..Len(utd) |-> utd[i].user_id])
    IN  [g \in 1..Len(ids) |->
            [userId |-> ids[g],
             max_ts |-> Max({utd[i].ts : i \in {j \in 1..Len(utd) :
                                                  utd[j].user_id = ids[g]}})]]

\* users_max_ts_df.join(users_table_df, userId == user_id & max_ts == ts)
users_table_join(mx, utd) ==
    LET on(p) == /\ SqlEq(mx[p.e].userId, utd[p.s].user_id)
                 /\ mx[p.e].max_ts = utd[p.s].ts   \* ts is never null here
        hit == SelectSeq(Pairs(Len(mx), Len(utd)), on)
    IN  [k \in 1..Len(hit) |-> utd[hit[k].s]]

users_table(df) ==
    LET utd == users_table_df(df)
        j == users_table_join(users_max_ts_df(utd), utd)
    IN  [k \in 1..Len(j) |->
            [user_id |-> j[k].user_id, first_name |-> j[k].first_name,
             last_name |-> j[k].last_name, gender |-> j[k].gender,
             level |-> j[k].level]]

\* ---------------------------------------------------------------------- time
Pad2(n) == IF n < 10 THEN "0" \o ToString(n) ELSE ToString(n)
Pad3(n) == IF n < 10 THEN "00" \o ToString(n)
           ELSE IF n < 100 THEN "0" \o ToString(n) ELSE ToString(n)

\* Proleptic Gregorian date of a day number counted from 1970-01-01.
CivilFromDays(days) ==
    LET z == days + 719468
        era == z \div 146097
        doe == z - era * 146097
        yoe == (doe - doe \div 1460 + doe \div 36524 - doe \div 146096) \div 365
        doy == doe - (365 * yoe + yoe \div 4 - yoe \div 100)
        mp == (5 * doy + 2) \div 153
        d == doy - (153 * mp + 2) \div 5 + 1
        m == IF mp < 10 THEN mp + 3 ELSE mp - 9
        y == yoe + era * 400 + (IF m <= 2 THEN 1 ELSE 0)
    IN  [year |-> y, month |-> m, day |-> d]

IsLeap(y) == (y % 4 = 0 /\ y % 100 # 0) \/ y % 400 = 0

DayOfYear(y, m, d) ==
    LET cum == <<0, 31, 59, 90, 120, 151, 181, 212, 243, 273, 304, 334>>
    IN  cum[m] + d + (IF m > 2 /\ IsLeap(y) THEN 1 ELSE 0)

WeeksInYear(y) ==
    LET p(x) == (x + x \div 4 - x \div 100 + x \div 400) % 7
    IN  IF p(y) = 4 \/ p(y - 1) = 3 THEN 53 ELSE 52

\* ISO-8601 week number; wd is the weekday with Monday = 0.
WeekOfYear(y, m, d, wd) ==
    LET w == (DayOfYear(y, m, d) - (wd + 1) + 10) \div 7
    IN  IF w < 1 THEN WeeksInYear(y - 1)
        ELSE IF w > WeeksInYear(y) THEN 1 ELSE w

\* pd.to_datetime(timestamp, unit='ms') and the map of strings built from it.
extract_fields_from_ts(timestamp) ==
    LET days == timestamp \div 86400000
        msod == timestamp % 86400000
        hh == msod \div 3600000
        mi == (msod % 3600000) \div 60000
        ss == (msod % 60000) \div 1000
        ms == msod % 1000
        c == CivilFromDays(days)
        wd == (days + 3) % 7
    IN  [start_time |->
            ToString(c.year) \o "-" \o Pad2(c.month) \o "-" \o Pad2(c.day)
            \o " " \o Pad2(hh) \o ":" \o Pad2(mi) \o ":" \o Pad2(ss)
            \o (IF ms = 0 THEN "" ELSE "." \o Pad3(ms) \o "000"),
         hour |-> ToString(hh),
         day |-> ToString(c.day),
         week |-> ToString(WeekOfYear(c.year, c.month, c.day, wd)),
         month |-> ToString(c.month),
         year |-> ToString(c.year),
         weekday |-> ToString(wd)]

\* The same table followed by dropDuplicates().
time_table_distinct(df) ==
    Distinct([i \in 1..Len(df) |-> extract_fields_from_ts(df[i].ts)])

\* df.withColumn("time_data", udf(ts)).selectExpr(the seven fields)
time_table(df) ==
    [i \in 1..Len(df) |-> extract_fields_from_ts(df[i].ts)]

\* ----------------------------------------------------------------- songplays
\* A join on the title alone.
JoinCond_title(ev, sg) == SqlEq(ev.song, sg.title)

\* (log_df.song == song_df.title) & (log_df.artist == song_df.artist_name)
JoinCond(ev, sg) == SqlEq(ev.song, sg.title) /\ SqlEq(ev.artist, sg.artist_name)

\* No filter on the page.
PageFilter_none(ev) == TRUE

\* .filter(log_df.page == "NextSong")
PageFilter(ev) == SqlEq(ev.page, "NextSong")

\* The same join as a left outer join: an event without a song record keeps
\* a row whose song columns are null.
combined_left_outer(log_df, song_df) ==
    LET keep(p) == JoinCond(log_df[p.e], song_df[p.s]) /\ PageFilter(log_df[p.e])
        hit == SelectSeq(Pairs(Len(log_df), Len(song_df)), keep)
        alone(i) == /\ PageFilter(log_df[i])
                    /\ \A j \in 1..Len(song_df) : ~JoinCond(log_df[i], song_df[j])
        lone == SelectSeq([i \in 1..Len(log_df) |-> i], alone)
    IN  [k \in 1..Len(hit) |->
            [ev |-> log_df[hit[k].e], sg |-> song_df[hit[k].s],
             e |-> hit[k].e, s |-> hit[k].s]]
        \o
        [k \in 1..Len(lone) |->
            [ev |-> log_df[lone[k]],
             sg |-> [song_id |-> NULL, artist_id |-> NULL, artist_location |-> NULL],
             e |-> lone[k], s |-> 0]]

\* log_df.join(song_df, cond).filter(...).  A joined row has the columns of
\* its event (ev) and of its song record (sg); e and s number the two input
\* rows it was built from and are no columns of the DataFrame.
combined(log_df, song_df) ==
    LET keep(p) == JoinCond(log_df[p.e], song_df[p.s]) /\ PageFilter(log_df[p.e])
        hit == SelectSeq(Pairs(Len(log_df), Len(song_df)), keep)
    IN  [k \in 1..Len(hit) |->
            [ev |-> log_df[hit[k].e], sg |-> song_df[hit[k].s],
             e |-> hit[k].e, s |-> hit[k].s]]

\* An id that numbers the rows inside their partition only.
monotonically_increasing_id_local(part, k) ==
    [partition |-> 0,
     record |-> Cardinality({j \in 1..(k - 1) : part[j] = part[k]})]

\* monotonically_increasing_id() for row k when part[j] is the partition that
\* holds row j: the 64-bit id has the partition number in its upper 31 bits
\* and the row's number inside its partition in the lower 33 bits.  The id
\* is kept as that pair of bit fields, which stands for partition * 2^33 +
\* record (record < 2^33).
monotonically_increasing_id(part, k) ==
    [partition |-> part[k],
     record |-> Cardinality({j \in 1..(k - 1) : part[j] = part[k]})]

\* withColumn("songplay_id", ...) and the final selectExpr
songplays_table(cdf, part) ==
    [k \in 1..Len(cdf) |->
        [songplay_id |-> monotonically_increasing_id(part, k),
         start_time |-> cdf[k].ev.ts, user_id |-> cdf[k].ev.userId,
         level |-> cdf[k].ev.level, song_id |-> cdf[k].sg.song_id,
         artist_id |-> cdf[k].sg.artist_id,
         session_id |-> cdf[k].ev.sessionId,
         location |-> cdf[k].sg.artist_location,
         user_agent |-> cdf[k].ev.userAgent]]

\* --------------------------------------------------------------------- state
VARIABLES
    song_data,    \* the song records under input_song_data
    log_data,     \* the event records under input_log_data
    run,          \* how many times main has been started
    pc,           \* "start", the stage main is at (or raised in), or "done"
    error,        \* "none", or why the stage at pc raised
    store,        \* what each of the five output paths holds
    combined_df   \* the joined rows of the last create_song_plays_table

vars == <<song_data, log_data, run, pc, error, store, combined_df>>

Stages == <<"songs", "artists", "users", "time", "songplays">>
Paths == Range(Stages)

Absent == [status |-> "absent", rows |-> <<>>, run |-> 0]

Init ==
    /\ \/ /\ song_data \in [1..1 -> ProfileSongs]
          /\ log_data \in SeqsUpTo(ProfileEvents, MaxEvents)
       \/ /\ song_data \in SeqsUpTo(JoinSongs, MaxSongs)
          /\ log_data \in SeqsUpTo(JoinEvents, MaxEvents)
    /\ run = 0
    /\ pc = "start"
    /\ error = "none"
    /\ store = [p \in Paths |-> Absent]
    /\ combined_df = <<>>

\* main(): a new run of the script.  Nothing clears the output paths.
Main ==
    /\ pc \in {"start", "done"} \/ error # "none"
    /\ run < MaxRuns
    /\ run' = run + 1
    /\ pc' = "songs"
    /\ error' = "none"
    /\ UNCHANGED <<song_data, log_data, store, combined_df>>

\* A save whose failed write is swallowed, so that main goes on.
Save_continue(path, rows, nxt) ==
    \/ /\ error' = "read"
       /\ UNCHANGED <<pc, store>>
    \/ /\ store[path].status # "absent"
       /\ error' = "exists"
       /\ UNCHANGED <<pc, store>>
    \/ /\ store[path].status = "absent"
       /\ error' = "write"
       /\ UNCHANGED store
       /\ pc' = nxt
    \/ /\ store[path].status = "absent"
       /\ store' = [store EXCEPT
                      ![path] = [status |-> "committed", rows |-> rows, run |-> run]]
       /\ pc' = nxt
       /\ UNCHANGED error

\* spark.read.json(...) followed by df.write...save(path).  No mode is set,
\* so the write uses Spark's default ErrorIfExists: it raises when the path
\* already exists.  The read and the write can also fail in the storage
\* layer; a failed write may leave files behind.  An exception is not caught
\* anywhere, so it ends main at this stage.
Save(path, rows, nxt) ==
    \/ /\ error' = "read"
       /\ UNCHANGED <<pc, store>>
    \/ /\ store[path].status # "absent"
       /\ error' = "exists"
       /\ UNCHANGED <<pc, store>>
    \/ /\ store[path].status = "absent"
       /\ error' = "write"
       /\ \/ UNCHANGED store
          \/ store' = [store EXCEPT
                         ![path] = [status |-> "partial", rows |-> <<>>, run |-> run]]
       /\ UNCHANGED pc
    \/ /\ store[path].status = "absent"
       /\ store' = [store EXCEPT
                      ![path] = [status |-> "committed", rows |-> rows, run |-> run]]
       /\ pc' = nxt
       /\ UNCHANGED error

create_songs_table ==
    /\ pc = "songs" /\ error = "none"
    /\ Save("songs", songs_table(song_data), "artists")
    /\ UNCHANGED <<song_data, log_data, run, combined_df>>

create_artists_table ==
    /\ pc = "artists" /\ error = "none"
    /\ Save("artists", artists_table(song_data), "users")
    /\ UNCHANGED <<song_data, log_data, run, combined_df>>

create_users_table ==
    /\ pc = "users" /\ error = "none"
    /\ Save("users", users_table(log_data), "time")
    /\ UNCHANGED <<song_data, log_data, run, combined_df>>

create_time_table ==
    /\ pc = "time" /\ error = "none"
    /\ Save("time", time_table(log_data), "songplays")
    /\ UNCHANGED <<song_data, log_data, run, combined_df>>

create_song_plays_table ==
    /\ pc = "songplays" /\ error = "none"
    /\ LET cdf == combined(log_data, song_data)
       IN  /\ combined_df' = cdf
           /\ \E part \in [1..Len(cdf) -> 0..(MaxPartitions - 1)] :
                 Save("songplays", songplays_table(cdf, part), "done")
    /\ UNCHANGED <<song_data, log_data, run>>

Next ==
    \/ Main
    \/ create_songs_table
    \/ create_artists_table
    \/ create_users_table
    \/ create_time_table
    \/ create_song_plays_table

Spec == Init /\ [][Next]_vars

\* ---------------------------------------------------------------- properties
Committed(path) == store[path].status = "committed"
Rows(path) == store[path].rows

\* Event row i has a song record that agrees with it on title and artist name.
Matches(i, j) ==
    /\ song_data[j].title = log_data[i].song
    /\ song_data[j].artist_name = log_data[i].artist
Matched(i) == \E j \in 1..Len(song_data) : Matches(i, j)

\* Event row i is a latest record of its user.
Latest(i) ==
    \A j \in 1..Len(log_data) :
        log_data[j].userId = log_data[i].userId => log_data[j].ts <= log_data[i].ts

\* C1: the users table has exactly one row for every user_id of the input
\* events, also when several records of a user share the maximum ts.
C1_ExactlyOneRowPerUser ==
    Committed("users") =>
        \A i \in 1..Len(log_data) :
            Count(Rows("users"), LAMBDA r : r.user_id = log_data[i].userId) = 1

\* C2: every row of the users table carries the name, gender and level of an
\* input record of that user whose ts is the maximum ts of that user.
C2_LatestWins ==
    Committed("users") =>
        \A k \in 1..Len(Rows("users")) :
            \E i \in 1..Len(log_data) :
                /\ Latest(i)
                /\ Rows("users")[k] =
                     [user_id |-> log_data[i].userId,
                      first_name |-> log_data[i].firstName,
                      last_name |-> log_data[i].lastName,
                      gender |-> log_data[i].gender,
                      level |-> log_data[i].level]

\* A user has an older record with another level than its latest one.
C2_Witness ==
    /\ Committed("users")
    /\ \E i, j \in 1..Len(log_data) :
          /\ log_data[i].userId = log_data[j].userId
          /\ log_data[i].ts < log_data[j].ts
          /\ log_data[i].level # log_data[j].level

\* C3: no songplays row is derived from an event whose page is not
\* "NextSong", whether or not the event matches a song record.
C3_OnlyNextSong ==
    Committed("songplays") =>
        /\ Len(Rows("songplays")) = Len(combined_df)
        /\ \A k \in 1..Len(combined_df) :
              /\ log_data[combined_df[k].e].page = "NextSong"
              /\ combined_df[k].ev = log_data[combined_df[k].e]
              /\ Rows("songplays")[k].user_id = combined_df[k].ev.userId
              /\ Rows("songplays")[k].start_time = combined_df[k].ev.ts
        /\ (\A i \in 1..Len(log_data) : log_data[i].page # "NextSong")
              => Rows("songplays") = <<>>

\* An event of another page matches a song record and the table is written.
C3_Witness ==
    /\ Committed("songplays")
    /\ \E i \in 1..Len(log_data) : log_data[i].page # "NextSong" /\ Matched(i)
    /\ \E i \in 1..Len(log_data) : log_data[i].page = "NextSong" /\ Matched(i)

\* C4: after a complete run every songplays row has a songs row with its
\* song_id and an artists row with its artist_id.
C4_ReferentialIntegrity ==
    pc = "done" =>
        \A k \in 1..Len(Rows("songplays")) :
            /\ Committed("songs") /\ Committed("artists")
            /\ \E j \in 1..Len(Rows("songs")) :
                  Rows("songs")[j].song_id = Rows("songplays")[k].song_id
            /\ \E j \in 1..Len(Rows("artists")) :
                  Rows("artists")[j].artist_id = Rows("songplays")[k].artist_id

\* A complete run whose songplays rows name two different songs.
C4_Witness ==
    /\ pc = "done"
    /\ \E k, l \in 1..Len(Rows("songplays")) :
          Rows("songplays")[k].song_id # Rows("songplays")[l].song_id

\* C5: an event without a song record of the same title and artist name
\* yields no songplays row (none with a null song_id or artist_id either),
\* and the songplays stage can still complete: with its output path free it
\* is able to commit its table.
C5_DropUnmatched ==
    /\ Committed("songplays") =>
          /\ \A i \in 1..Len(log_data) :
                ~Matched(i) => \A k \in 1..Len(combined_df) : combined_df[k].e # i
          /\ \A k \in 1..Len(Rows("songplays")) :
                /\ Rows("songplays")[k].song_id # NULL
                /\ Rows("songplays")[k].artist_id # NULL
          /\ Len(Rows("songplays")) = Len(combined_df)
    /\ (pc = "songplays" /\ error = "none" /\ store["songplays"].status = "absent")
          => ENABLED (create_song_plays_table /\ pc' = "done")

\* The table is written from a stream holding an unmatched NextSong event,
\* here one that agrees with a song record on the title but not the artist.
C5_Witness ==
    /\ Committed("songplays")
    /\ \E i \in 1..Len(log_data) :
          /\ log_data[i].page = "NextSong"
          /\ ~Matched(i)
          /\ \E j \in 1..Len(song_data) : song_data[j].title = log_data[i].song

\* C6: no two rows of the songplays table have the same songplay_id, however
\* the rows are split among partitions.
C6_UniqueSongplayId ==
    Committed("songplays") =>
        \A k, l \in 1..Len(Rows("songplays")) :
            k # l => Rows("songplays")[k].songplay_id # Rows("songplays")[l].songplay_id

\* Rows in two partitions, both numbered 0 inside their partition.
C6_Witness ==
    /\ Committed("songplays")
    /\ \E k, l \in 1..Len(Rows("songplays")) :
          /\ Rows("songplays")[k].songplay_id.partition
                # Rows("songplays")[l].songplay_id.partition
          /\ Rows("songplays")[k].songplay_id.record
                = Rows("songplays")[l].songplay_id.record

\* C7 as stated: when a stage fails, none of the output tables is committed.
C7_AllOrNothing ==
    error # "none" => \A p \in Paths : ~Committed(p)

\* C7 as amended: a failing stage ends the run where it is; the stages before
\* it have committed their tables in this run and these stay, the stages
\* after it have written nothing in this run.
C7_StopsAtFailingStage ==
    error # "none" =>
        \E f \in 1..Len(Stages) :
            /\ pc = Stages[f]
            /\ \A g \in 1..(f - 1) :
                  Committed(Stages[g]) /\ store[Stages[g]].run = run
            /\ \A g \in (f + 1)..Len(Stages) : store[Stages[g]].run # run

\* The users stage fails after songs and artists were written.
C7_Witness ==
    /\ error \in {"read", "write"}
    /\ pc = "users"
    /\ Committed("songs") /\ Committed("artists")
    /\ ~Committed("time")

\* C8: a later run of main on the same inputs does not fail because the
\* output paths hold data of an earlier run, and after it every output path
\* holds the table this run wrote.
C8_RerunOverwrites ==
    /\ (run >= 2 /\ error # "none") => error \in {"read", "write"}
    /\ (run >= 2 /\ pc = "done") =>
          \A p \in Paths : Committed(p) /\ store[p].run = run

\* C9: the time table has one row per event record, whatever its page; events
\* with the same ts each have their row, and these rows are equal in all
\* seven fields.
C9_OneTimeRowPerEvent ==
    Committed("time") =>
        /\ Len(Rows("time")) = Len(log_data)
        /\ \A i \in 1..Len(log_data) :
              Count(Rows("time"),
                    LAMBDA r : r.start_time
                                 = extract_fields_from_ts(log_data[i].ts).start_time)
                = Count(log_data, LAMBDA ev : ev.ts = log_data[i].ts)
        /\ \A k, l \in 1..Len(Rows("time")) :
              Rows("time")[k].start_time = Rows("time")[l].start_time
                  => Rows("time")[k] = Rows("time")[l]

\* Two events with the same ts and different pages, and one with another ts.
C9_Witness ==
    /\ Committed("time")
    /\ \E i, j \in 1..Len(log_data) :
          i # j /\ log_data[i].ts = log_data[j].ts /\ log_data[i].page # log_data[j].page

\* C10: a NextSong event yields as many songplays rows as there are song
\* records with its title and artist name; each row has the song_id and
\* artist_id of its song record and the userId of its event; one song record
\* and one matching event give exactly one row.
C10_JoinMultiplicity ==
    Committed("songplays") =>
        /\ \A i \in 1..Len(log_data) :
              log_data[i].page = "NextSong" =>
                  Cardinality({k \in 1..Len(Rows("songplays")) : combined_df[k].e = i})
                    = Cardinality({j \in 1..Len(song_data) : Matches(i, j)})
        /\ Len(Rows("songplays")) =
              Cardinality({p \in (1..Len(log_data)) \X (1..Len(song_data)) :
                             log_data[p[1]].page = "NextSong" /\ Matches(p[1], p[2])})
        /\ \A k \in 1..Len(Rows("songplays")) :
              /\ Matches(combined_df[k].e, combined_df[k].s)
              /\ Rows("songplays")[k].song_id = song_data[combined_df[k].s].song_id
              /\ Rows("songplays")[k].artist_id = song_data[combined_df[k].s].artist_id
              /\ Rows("songplays")[k].user_id = log_data[combined_df[k].e].userId
        /\ (Len(song_data) = 1 /\ Len(log_data) = 1
               /\ log_data[1].page = "NextSong" /\ Matches(1, 1))
              => /\ Len(Rows("songplays")) = 1
                 /\ Rows("songplays")[1].song_id = song_data[1].song_id
                 /\ Rows("songplays")[1].artist_id = song_data[1].artist_id
                 /\ Rows("songplays")[1].user_id = log_data[1].userId

\* One NextSong event with two matching song records, next to an event that
\* agrees with them on the title only.
C10_Witness ==
    /\ Committed("songplays")
    /\ \E i \in 1..Len(log_data) :
          /\ log_data[i].page = "NextSong"
          /\ Cardinality({j \in 1..Len(song_data) : Matches(i, j)}) = 2
    /\ \E i \in 1..Len(log_data) :
          /\ log_data[i].page = "NextSong"
          /\ ~Matched(i)
          /\ \E j \in 1..Len(song_data) : song_data[j].title = log_data[i].song
====
